---------------------------- MODULE Spec2Model ----------------------------
(***************************************************************************)
(* A model of the configuration interchange code of CLI11:                 *)
(*   include/CLI/Config.hpp     convert_arg_for_ini, ini_join,             *)
(*                              generate_parents, checkParentSegments,     *)
(*                              ConfigBase::from_config, ::to_config       *)
(*   include/CLI/ConfigFwd.hpp  ConfigItem, the ConfigBase format knobs    *)
(*                                                                         *)
(* A std::string is a sequence of one-character strings, so that find,     *)
(* substr, split and the quoting rules act on characters as the code does. *)
(* StringTools.hpp and TypeTools.hpp are not part of the sources at hand;  *)
(* trim, to_lower, split, split_up, remove_quotes and lexical_cast are     *)
(* written from their documented behaviour.                                *)
(***************************************************************************)
EXTENDS Integers, Sequences, FiniteSets, TLC

VARIABLES
    mode,                 \* which entry point this behaviour exercises
    pc,                   \* position of the call: "read", "done", ...
    knobs,                \* ConfigBase: configSection, configIndex, maximumLayers
    input,                \* std::istream &input, as its sequence of raw lines
    consumed,             \* number of raw lines getline has returned so far
    fate,                 \* history: what from_config did with each consumed line
    currentSection,       \* from_config local
    previousSection,      \* from_config local
    output,               \* from_config local: std::vector<ConfigItem>
    inSection,            \* from_config local
    currentSectionIndex,  \* from_config local
    arg,                  \* convert_arg_for_ini: the token
    result,               \* convert_arg_for_ini: the text returned
    app,                  \* to_config: the root App of the option tree
    default_also,         \* to_config argument
    write_description,    \* to_config argument
    text,                 \* to_config: the text returned
    reread,               \* the records from_config returns for that text
    flag_item,            \* to_flag: the record (item)
    flag,                 \* to_flag: what the caller gets
    raw,                  \* _split_result_str: the string handed in
    res,                  \* _split_result_str: the tokens appended
    result_count,         \* _split_result_str: the count returned
    config_file,          \* ConfigTOML: the toml value read or written
    frames,               \* ConfigTOML::_from_config: the calls under way
    returned              \* ConfigTOML: what the caller gets

readerVars == <<input, consumed, fate, currentSection, previousSection, output,
                inSection, currentSectionIndex>>

quoteVars == <<arg, result>>

writerVars == <<app, default_also, write_description, text, reread>>

flagVars == <<flag_item, flag>>

splitVars == <<raw, res, result_count>>

tomlVars == <<config_file, frames, returned>>

backendVars == <<flagVars, splitVars, tomlVars>>

vars == <<mode, pc, knobs, readerVars, quoteVars, writerVars, backendVars>>

---------------------------------------------------------------------------
(* Characters and the StringTools helpers                                  *)

NUL == "NUL"                          \* the character '\0'
DQ == "\""                            \* the double quote character
SQ == "'"                             \* the single quote character

IsSpace(c) == c \in {" ", "\t"}

Min(a, b) == IF a < b THEN a ELSE b

UpperCase == <<"A", "D", "E", "F", "L", "T", "U", "X">>
LowerCase == <<"a", "d", "e", "f", "l", "t", "u", "x">>

to_lower_char(c) ==
    IF \E i \in 1..Len(UpperCase) : UpperCase[i] = c
    THEN LowerCase[CHOOSE i \in 1..Len(UpperCase) : UpperCase[i] = c]
    ELSE c

to_lower(s) == [i \in 1..Len(s) |-> to_lower_char(s[i])]

RECURSIVE ltrim(_)
ltrim(s) == IF s # <<>> /\ IsSpace(Head(s)) THEN ltrim(Tail(s)) ELSE s

RECURSIVE rtrim(_)
rtrim(s) ==
    IF s # <<>> /\ IsSpace(s[Len(s)]) THEN rtrim(SubSeq(s, 1, Len(s) - 1)) ELSE s

trim(s) == ltrim(rtrim(s))

\* std::string::find(c): the first index (1-based) holding c, 0 for npos
FindChar(s, c) ==
    LET I == {i \in 1..Len(s) : s[i] = c}
    IN  IF I = {} THEN 0 ELSE CHOOSE i \in I : \A j \in I : i <= j

\* the getline(ss, item, delim) loop of detail::split
RECURSIVE getlines(_, _)
getlines(s, delim) ==
    IF s = <<>> THEN <<>>
    ELSE LET p == FindChar(s, delim)
         IN  IF p = 0 THEN <<s>>
             ELSE <<SubSeq(s, 1, p - 1)>> \o getlines(SubSeq(s, p + 1, Len(s)), delim)

split(s, delim) == IF s = <<>> THEN << <<>> >> ELSE getlines(s, delim)

remove_quotes(str) ==
    IF /\ Len(str) > 1
       /\ str[1] \in {DQ, SQ}
       /\ str[1] = str[Len(str)]
    THEN SubSeq(str, 2, Len(str) - 1)
    ELSE str

\* detail::remove_quotes on a vector of strings
remove_quotes_each(strs) == [i \in 1..Len(strs) |-> remove_quotes(strs[i])]

\* index of the first character of s that ends a token: the delimiter, or
\* white space when no delimiter is given; 0 when there is none
FindBreak(s, delimiter) ==
    LET I == {i \in 1..Len(s) :
                 IF delimiter = NUL THEN IsSpace(s[i]) ELSE s[i] = delimiter}
    IN  IF I = {} THEN 0 ELSE CHOOSE i \in I : \A j \in I : i <= j

RECURSIVE split_up_loop(_, _)
split_up_loop(str, delimiter) ==
    IF str = <<>> THEN <<>>
    ELSE IF str[1] \in {SQ, DQ}
    THEN LET end == FindChar(Tail(str), str[1])      \* index in Tail(str)
         IN  IF end # 0
             THEN <<SubSeq(str, 2, end)>> \o
                  split_up_loop(trim(SubSeq(str, end + 3, Len(str))), delimiter)
             ELSE <<Tail(str)>>
    ELSE LET it == FindBreak(str, delimiter)
         IN  IF it # 0
             THEN <<SubSeq(str, 1, it - 1)>> \o
                  split_up_loop(trim(SubSeq(str, it + 1, Len(str))), delimiter)
             ELSE <<str>>

split_up(str, delimiter) == split_up_loop(trim(str), delimiter)

---------------------------------------------------------------------------
(* The format knobs of ConfigBase (ConfigFwd.hpp)                          *)

commentChar == "#"
arrayStart == "["
arrayEnd == "]"
arraySeparator == ","
valueDelimiter == "="
stringQuote == DQ
characterQuote == SQ
parentSeparatorChar == "."

DefaultMaximumLayers == 255
NoConfigIndex == -1

\* std::string literals of the code
default == <<"d", "e", "f", "a", "u", "l", "t">>
OpenMarker == <<"+", "+">>
CloseMarker == <<"-", "-">>
TrueToken == <<"t", "r", "u", "e">>

ConfigItem(parents, name, inputs) ==
    [parents |-> parents, name |-> name, inputs |-> inputs]

---------------------------------------------------------------------------
(* detail::lexical_cast<double>: the text is, as a whole, what strtold     *)
(* accepts: white space, a sign, then a decimal number with an optional    *)
(* exponent, a hexadecimal number, or inf / infinity / nan in any case     *)

Digits == {"0", "1", "2", "3", "4", "5", "6", "7", "8", "9"}
HexDigits == Digits \cup {"a", "b", "c", "d", "e", "f", "A", "B", "C", "D", "E", "F"}

AllIn(s, S) == \A i \in 1..Len(s) : s[i] \in S

\* digits [. digits], with a digit on at least one side of the point
IsMantissa(s, D) ==
    LET p == FindChar(s, ".")
        whole == IF p = 0 THEN s ELSE SubSeq(s, 1, p - 1)
        frac == IF p = 0 THEN <<>> ELSE SubSeq(s, p + 1, Len(s))
    IN  AllIn(whole, D) /\ AllIn(frac, D) /\ Len(whole) + Len(frac) > 0

IsExponent(s) ==
    LET body == IF s # <<>> /\ s[1] \in {"+", "-"} THEN Tail(s) ELSE s
    IN  body # <<>> /\ AllIn(body, Digits)

\* mantissa [marker exponent], the marker being one of the characters of E
IsScientific(s, D, E) ==
    LET I == {i \in 1..Len(s) : s[i] \in E}
        p == IF I = {} THEN 0 ELSE CHOOSE i \in I : \A j \in I : i <= j
    IN  IF p = 0 THEN IsMantissa(s, D)
        ELSE IsMantissa(SubSeq(s, 1, p - 1), D) /\ IsExponent(SubSeq(s, p + 1, Len(s)))

lexical_cast_double(str) ==
    LET s == ltrim(str)
        u == IF s # <<>> /\ s[1] \in {"+", "-"} THEN Tail(s) ELSE s
    IN  \/ IsScientific(u, Digits, {"e", "E"})
        \/ /\ Len(u) > 2 /\ u[1] = "0" /\ u[2] \in {"x", "X"}
           /\ IsScientific(SubSeq(u, 3, Len(u)), HexDigits, {"p", "P"})
        \/ to_lower(u) \in { <<"i", "n", "f">>, <<"n", "a", "n">>,
                            <<"i", "n", "f", "i", "n", "i", "t", "y">> }

---------------------------------------------------------------------------
(* detail::convert_arg_for_ini                                             *)

FalseToken == <<"f", "a", "l", "s", "e">>
NanToken == <<"n", "a", "n">>
InfToken == <<"i", "n", "f">>

\* arg.compare(0, 2, "0x") != 0 && arg.compare(0, 2, "0X") != 0
\* (mutation: only the lower-case prefix is recognised)
NoHexPrefix_LowerOnly(a) == SubSeq(a, 1, Min(2, Len(a))) # <<"0", "x">>

NoHexPrefix(a) ==
    /\ SubSeq(a, 1, Min(2, Len(a))) # <<"0", "x">>
    /\ SubSeq(a, 1, Min(2, Len(a))) # <<"0", "X">>

\* std::all_of(arg.begin() + 2, arg.end(), pred)
AllOfFrom2(a, S) == \A i \in 3..Len(a) : a[i] \in S

convert_arg_for_ini(a, sQuote, cQuote) ==
    IF a = <<>> THEN <<sQuote, sQuote>>
    ELSE IF a \in {TrueToken, FalseToken, NanToken, InfToken} THEN a
    ELSE IF NoHexPrefix(a) /\ lexical_cast_double(a) THEN a
    ELSE IF Len(a) = 1 THEN <<cQuote>> \o a \o <<cQuote>>
    ELSE IF /\ a[1] = "0"
            /\ \/ a[2] = "x" /\ AllOfFrom2(a, HexDigits)
               \/ a[2] = "o" /\ AllOfFrom2(a, {"0", "1", "2", "3", "4", "5", "6", "7"})
               \/ a[2] = "b" /\ AllOfFrom2(a, {"0", "1"})
    THEN a
    ELSE IF FindChar(a, sQuote) = 0
    THEN <<sQuote>> \o a \o <<sQuote>>
    ELSE <<cQuote>> \o a \o <<cQuote>>

---------------------------------------------------------------------------
(* detail::ini_join                                                        *)

RECURSIVE JoinFrom(_, _, _, _, _)
\* the loop over args; start counts the tokens already appended
JoinFrom(args, start, sepChar, sQuote, cQuote) ==
    IF args = <<>> THEN <<>>
    ELSE (IF start > 0
          THEN <<sepChar>> \o (IF ~IsSpace(sepChar) THEN <<" ">> ELSE <<>>)
          ELSE <<>>) \o
         convert_arg_for_ini(Head(args), sQuote, cQuote) \o
         JoinFrom(Tail(args), start + 1, sepChar, sQuote, cQuote)

ini_join(args, sepChar, aStartChar, aEndChar, sQuote, cQuote) ==
    (IF Len(args) > 1 /\ aStartChar # NUL THEN <<aStartChar>> ELSE <<>>) \o
    JoinFrom(args, 0, sepChar, sQuote, cQuote) \o
    (IF Len(args) > 1 /\ aEndChar # NUL THEN <<aEndChar>> ELSE <<>>)

---------------------------------------------------------------------------
(* detail::generate_parents                                                *)

generate_parents(section, name, parentSeparator) ==
    LET dotted == FindChar(name, parentSeparator) # 0
        plist == split(name, parentSeparator)
    IN  [parents |->
            remove_quotes_each(
                (IF to_lower(section) # default
                 THEN IF FindChar(section, parentSeparator) # 0
                      THEN split(section, parentSeparator)
                      ELSE <<section>>
                 ELSE <<>>) \o
                (IF dotted THEN SubSeq(plist, 1, Len(plist) - 1) ELSE <<>>)),
         name |-> IF dotted THEN remove_quotes(plist[Len(plist)]) ELSE name]

---------------------------------------------------------------------------
(* detail::checkParentSegments                                             *)

Back(out) == out[Len(out)]

PopParent(item) ==
    [item EXCEPT !.parents = SubSeq(@, 1, Len(@) - 1)]

\* if(!output.empty() && output.back().name == "--")
\* (mutation: any last record is taken for the outgoing section's close)
EndsWithClose_AnyRecord(out) == out # <<>>

EndsWithClose(out) == out # <<>> /\ Back(out).name = CloseMarker

\* (mutation: the loop stops one level early, > for >=)
RECURSIVE CloseDownTo_OffByOne(_, _)
CloseDownTo_OffByOne(out, msize) ==
    IF Len(Back(out).parents) > msize
    THEN CloseDownTo_OffByOne(Append(out, PopParent(Back(out))), msize)
    ELSE out

\* while(output.back().parents.size() >= msize)
\*     { output.push_back(output.back()); output.back().parents.pop_back(); }
RECURSIVE CloseDownTo(_, _)
CloseDownTo(out, msize) ==
    IF Len(Back(out).parents) >= msize
    THEN CloseDownTo(Append(out, PopParent(Back(out))), msize)
    ELSE out

\* the loop counting the leading segments on which a and b agree, up to mpair
RECURSIVE CommonCount(_, _, _, _)
CommonCount(a, b, ii, mpair) ==
    IF ii < mpair /\ a[ii + 1] = b[ii + 1]
    THEN CommonCount(a, b, ii + 1, mpair)
    ELSE ii

\* for(ii = from; ii < parents.size() - 1; ++ii) emplace "++" with parents[0..ii]
OpenFrom(parents, from) ==
    [k \in 1..(IF Len(parents) - 1 > from THEN Len(parents) - 1 - from ELSE 0) |->
        ConfigItem(SubSeq(parents, 1, from + k), OpenMarker, <<>>)]

\* lines 140-160: closed is the output once the loop of lines 134-137 has run
ReopenFrom(closed, parents) ==
    LET mpair == Min(Len(Back(closed).parents), Len(parents) - 1)
        common == CommonCount(Back(closed).parents, parents, 0, mpair)
    IN  (IF common = mpair
         THEN SubSeq(closed, 1, Len(closed) - 1)
         ELSE CloseDownTo(closed, common + 2)) \o
        OpenFrom(parents, common)

\* lines 132-173, parents being those of the new section
SegmentsTo(out, parents) ==
    Append(IF EndsWithClose(out)
           THEN IF Len(parents) > 1
                THEN ReopenFrom(CloseDownTo(out, Len(parents)), parents)
                ELSE CloseDownTo(out, 2)
           ELSE IF Len(parents) > 1
           THEN out \o OpenFrom(parents, 0)
           ELSE out,
           ConfigItem(parents, OpenMarker, <<>>))

checkParentSegments(out, section, parentSeparator) ==
    SegmentsTo(out, generate_parents(section, <<>>, parentSeparator).parents)

---------------------------------------------------------------------------
(* ConfigBase::from_config, one handler per kind of line                   *)

isDefaultArray == arrayStart = "[" /\ arrayEnd = "]" /\ arraySeparator = ","
isINIArray == arrayStart \in {NUL, " "} /\ arrayStart = arrayEnd
aStart == IF isINIArray THEN "[" ELSE arrayStart
aEnd == IF isINIArray THEN "]" ELSE arrayEnd
aSep == IF isINIArray /\ arraySeparator = " " THEN "," ELSE arraySeparator

\* the locals of from_config as one record
Locals ==
    [currentSection |-> currentSection, previousSection |-> previousSection,
     output |-> output, inSection |-> inSection,
     currentSectionIndex |-> currentSectionIndex]

InitialLocals ==
    [currentSection |-> default, previousSection |-> default, output |-> <<>>,
     inSection |-> FALSE, currentSectionIndex |-> 0]

IsShort(line) == Len(line) < 3
IsHeader(line) == ~IsShort(line) /\ line[1] = "[" /\ line[Len(line)] = "]"
IsComment(line) ==
    ~IsShort(line) /\ ~IsHeader(line) /\ line[1] \in {";", "#", commentChar}
IsKey(line) == ~IsShort(line) /\ ~IsHeader(line) /\ ~IsComment(line)

\* the section a header line names (lines 255-262)
SectionOf(line) ==
    LET inner == SubSeq(line, 2, Len(line) - 1)
        single == IF Len(inner) > 1 /\ inner[1] = "[" /\ inner[Len(inner)] = "]"
                  THEN SubSeq(inner, 2, Len(inner) - 1)
                  ELSE inner
    IN  IF to_lower(single) = default THEN default ELSE single

HeaderLine(s, line) ==
    LET section == SectionOf(line)
        ended ==
            IF s.currentSection # default
            THEN Append(s.output,
                        ConfigItem(generate_parents(s.currentSection, <<>>,
                                                    parentSeparatorChar).parents,
                                   CloseMarker, <<>>))
            ELSE s.output
        out == IF section = default
               THEN ended
               ELSE checkParentSegments(ended, section, parentSeparatorChar)
    IN  [currentSection |-> section,
         previousSection |-> IF section = s.previousSection
                             THEN s.previousSection ELSE section,
         output |-> out,
         inSection |-> FALSE,
         currentSectionIndex |-> IF section = s.previousSection
                                 THEN s.currentSectionIndex + 1 ELSE 0]

\* for(std::string multiline; item.back() != aEnd && getline(input, multiline);)
RECURSIVE Multiline(_, _, _)
Multiline(item, rest, used) ==
    IF item[Len(item)] # aEnd /\ rest # <<>>
    THEN Multiline(item \o trim(Head(rest)), Tail(rest), used + 1)
    ELSE [item |-> item, used |-> used]

\* lines 285-289 and 305-309: the text up to the comment character, if any
BeforeComment(str) ==
    LET cloc == FindChar(str, commentChar)
    IN  IF cloc # 0 THEN trim(SubSeq(str, 1, cloc - 1)) ELSE str

\* lines 290-294: an item that opens an array takes the lines that follow
WithContinuation(item, rest) ==
    IF Len(item) > 1 /\ item[1] = aStart
    THEN Multiline(item, rest, 0)
    ELSE [item |-> item, used |-> 0]

\* lines 290-302: the tokens of the item, continuation lines included
ItemsBuffer(item) ==
    IF Len(item) > 1 /\ item[1] = aStart
    THEN split_up(SubSeq(item, 2, Len(item) - 1), aSep)
    ELSE IF (isDefaultArray \/ isINIArray) /\ FindChar(item, aSep) # 0
    THEN split_up(item, aSep)
    ELSE IF (isDefaultArray \/ isINIArray) /\ FindChar(item, " ") # 0
    THEN split_up(item, NUL)
    ELSE <<item>>

\* lines 313-319: the quotes come off the name, unless it is dotted, and
\* off every token
Unquoted(name, used, items) ==
    [name |-> IF FindChar(name, parentSeparatorChar) = 0
              THEN remove_quotes(name) ELSE name,
     used |-> used,
     items |-> remove_quotes_each(items)]

\* lines 282-302: name is the text before the delimiter, m the item after it
KeyValue(name, m) == Unquoted(name, m.used, ItemsBuffer(m.item))

\* lines 281-319: the name and the tokens of a key line, and how many more raw
\* lines the multi-line array loop took from the stream
KeyLex(line, rest) ==
    LET pos == FindChar(line, valueDelimiter)
    IN  IF pos # 0
        THEN KeyValue(trim(SubSeq(line, 1, pos - 1)),
                      WithContinuation(
                          BeforeComment(trim(SubSeq(line, pos + 1, Len(line)))),
                          rest))
        ELSE Unquoted(BeforeComment(line), 0, <<TrueToken>>)

\* if(parents.size() > maximumLayers)
\* (mutation: a chain of exactly maximumLayers segments is dropped too)
ExceedsLayers_Inclusive(parents, k) == Len(parents) >= k.maximumLayers

ExceedsLayers(parents, k) == Len(parents) > k.maximumLayers

\* lines 322-342: what becomes of the key line; "fate" names the path taken
StoreKey(s, k, lex, gp) ==
    LET filtering == k.configSection # <<>> /\ ~s.inSection
        parents == IF filtering THEN Tail(gp.parents) ELSE gp.parents
    IN  IF ExceedsLayers(gp.parents, k)
        THEN [locals |-> s, used |-> lex.used, fate |-> "too_deep"]
        ELSE IF filtering /\ (gp.parents = <<>> \/ gp.parents[1] # k.configSection)
        THEN [locals |-> s, used |-> lex.used, fate |-> "other_section"]
        ELSE IF filtering /\ k.configIndex >= 0 /\ s.currentSectionIndex # k.configIndex
        THEN [locals |-> s, used |-> lex.used, fate |-> "other_index"]
        ELSE [locals |->
                [s EXCEPT
                   !.inSection = IF filtering THEN TRUE ELSE @,
                   !.output =
                      IF /\ s.output # <<>>
                         /\ gp.name = Back(s.output).name
                         /\ parents = Back(s.output).parents
                      THEN [s.output EXCEPT ![Len(s.output)].inputs = @ \o lex.items]
                      ELSE Append(s.output, ConfigItem(parents, gp.name, lex.items))],
              used |-> lex.used, fate |-> "stored"]

\* lines 321-342, with the lexed line at hand
ResolveKey(s, k, lex) ==
    StoreKey(s, k, lex, generate_parents(s.currentSection, lex.name, parentSeparatorChar))

\* lines 281-342: the handler of a key line
KeyLine(s, k, line, rest) == ResolveKey(s, k, KeyLex(line, rest))

\* lines 344-354
EndOfInput(s) ==
    IF s.currentSection # default
    THEN LET ended ==
                 Append(s.output,
                        ConfigItem(generate_parents(s.currentSection, <<>>,
                                                    parentSeparatorChar).parents,
                                   CloseMarker, <<>>))
         IN  [s EXCEPT !.output = CloseDownTo(ended, 2)]
    ELSE s


\* to_config is not under way
NoApp == [name |-> <<>>]

NoWriter ==
    /\ app = NoApp /\ default_also = FALSE /\ write_description = FALSE
    /\ text = <<>> /\ reread = <<>>

\* to_flag is not under way
NoFlag == flag_item = <<>> /\ flag = <<>>

\* _split_result_str is not under way
NoSplit == raw = <<>> /\ res = <<>> /\ result_count = 0

\* the TOML backend is not under way
NoToml == config_file = <<>> /\ frames = <<>> /\ returned = <<>>

NoBackend == NoFlag /\ NoSplit /\ NoToml

\* the whole of from_config as a function of the stream and the knobs
RECURSIVE ParseFrom(_, _, _)
ParseFrom(s, k, rest) ==
    IF rest = <<>> THEN EndOfInput(s)
    ELSE LET line == trim(Head(rest))
         IN  IF IsShort(line) \/ IsComment(line) THEN ParseFrom(s, k, Tail(rest))
             ELSE IF IsHeader(line) THEN ParseFrom(HeaderLine(s, line), k, Tail(rest))
             ELSE LET r == KeyLine(s, k, line, Tail(rest))
                  IN  ParseFrom(r.locals, k, SubSeq(rest, r.used + 2, Len(rest)))

from_config(stream, k) == ParseFrom(InitialLocals, k, stream).output

---------------------------------------------------------------------------
(* ConfigBase::to_config                                                   *)
(*                                                                         *)
(* An App is a record of what to_config reads from it: name, description,  *)
(* group, configurable, parsed (what the parent's got_subcommand answers), *)
(* options and subcommands. get_parent() is the last element of the        *)
(* sequence of ancestors the walk carries, the root first.                 *)

NL == "\n"
OptionsGroup == <<"O", "p", "t", "i", "o", "n", "s">>
OptionsSuffix == <<" ", "O", "p", "t", "i", "o", "n", "s", NL>>

commentLead == <<commentChar, " ">>

RECURSIVE Flatten(_)
\* the pieces written to the stream one after the other
Flatten(pieces) ==
    IF pieces = <<>> THEN <<>> ELSE Head(pieces) \o Flatten(Tail(pieces))

RECURSIVE fix_newlines(_, _)
\* detail::fix_newlines: the leader is repeated after every line break
fix_newlines(leader, str) ==
    IF str = <<>> THEN <<>>
    ELSE IF Head(str) = NL THEN <<NL>> \o leader \o fix_newlines(leader, Tail(str))
    ELSE <<Head(str)>> \o fix_newlines(leader, Tail(str))

RECURSIVE Distinct(_, _)
Distinct(seq, seen) ==
    IF seq = <<>> THEN <<>>
    ELSE IF Head(seq) \in seen THEN Distinct(Tail(seq), seen)
    ELSE <<Head(seq)>> \o Distinct(Tail(seq), seen \cup {Head(seq)})

\* App::get_groups: the groups of the options, each once, in order
get_groups(a) == Distinct([i \in 1..Len(a.options) |-> a.options[i].group], {})

\* lines 395-401: the value written for an option that has none
\* (mutation: the zero-arity test comes before the default text)
SynthesizedValue_FlagFirst(opt) ==
    IF opt.expected_min = 0 THEN FalseToken
    ELSE IF opt.default_str # <<>>
    THEN convert_arg_for_ini(opt.default_str, stringQuote, characterQuote)
    ELSE IF opt.run_callback_for_default THEN <<DQ, DQ>>
    ELSE <<>>

SynthesizedValue(opt) ==
    IF opt.default_str # <<>>
    THEN convert_arg_for_ini(opt.default_str, stringQuote, characterQuote)
    ELSE IF opt.expected_min = 0 THEN FalseToken
    ELSE IF opt.run_callback_for_default THEN <<DQ, DQ>>
    ELSE <<>>

\* lines 390-410: the line of one configurable option of the group at hand
OptionText(opt, prefix, dflt, descr) ==
    LET joined == ini_join(opt.results, arraySeparator, arrayStart, arrayEnd,
                           stringQuote, characterQuote)
        value == IF joined = <<>> /\ dflt THEN SynthesizedValue(opt) ELSE joined
    IN  IF value # <<>>
        THEN (IF descr /\ opt.description # <<>>
              THEN <<NL>> \o commentLead \o
                   fix_newlines(commentLead, opt.description) \o <<NL>>
              ELSE <<>>) \o
             prefix \o opt.name \o <<valueDelimiter>> \o value \o <<NL>>
        ELSE <<>>

\* lines 371-413: the options, group by group
GroupsText(a, prefix, dflt, descr) ==
    LET groups == <<OptionsGroup>> \o get_groups(a)
        IsDefaultGroup(g) == g = OptionsGroup \/ g = <<>>
        GroupText(n) ==
            LET group == groups[n]
            IN  IF IsDefaultGroup(group) /\ \E m \in 1..(n - 1) : IsDefaultGroup(groups[m])
                THEN <<>>
                ELSE (IF descr /\ ~IsDefaultGroup(group)
                      THEN <<NL>> \o commentLead \o group \o OptionsSuffix
                      ELSE <<>>) \o
                     Flatten([i \in 1..Len(a.options) |->
                        LET opt == a.options[i]
                        IN  IF /\ opt.configurable
                               /\ \/ opt.group = group
                                  \/ group = OptionsGroup /\ opt.group = <<>>
                            THEN OptionText(opt, prefix, dflt, descr)
                            ELSE <<>>])
    IN  Flatten([n \in 1..Len(groups) |-> GroupText(n)])

\* lines 427-437: the text between the brackets of subcom's header
HeaderName(a, ancestors, subcom, prefix) ==
    IF prefix # <<>> \/ ancestors = <<>>
    THEN prefix \o subcom.name
    ELSE Flatten([i \in 1..(Len(ancestors) - 1) |->
                     ancestors[i + 1].name \o <<parentSeparatorChar>>]) \o
         a.name \o <<parentSeparatorChar>> \o subcom.name

RECURSIVE to_config(_, _, _, _, _)
to_config(a, ancestors, dflt, descr, prefix) ==
    LET down == Append(ancestors, a)
        Unnamed(subcom) ==
            IF subcom.name = <<>>
            THEN (IF descr /\ subcom.group # <<>>
                  THEN <<NL>> \o commentLead \o subcom.group \o OptionsSuffix
                  ELSE <<>>) \o
                 to_config(subcom, down, dflt, descr, prefix)
            ELSE <<>>
        Named(subcom) ==
            IF subcom.name # <<>>
            THEN IF subcom.configurable /\ subcom.parsed
                 THEN <<"[">> \o HeaderName(a, ancestors, subcom, prefix) \o <<"]", NL>> \o
                      to_config(subcom, down, dflt, descr, <<>>)
                 ELSE to_config(subcom, down, dflt, descr,
                                prefix \o subcom.name \o <<parentSeparatorChar>>)
            ELSE <<>>
    IN  (IF descr /\ (a.configurable \/ ancestors = <<>> \/ a.name = <<>>)
         THEN commentLead \o fix_newlines(commentLead, a.description) \o <<NL>>
         ELSE <<>>) \o
        GroupsText(a, prefix, dflt, descr) \o
        Flatten([i \in 1..Len(a.subcommands) |-> Unnamed(a.subcommands[i])]) \o
        Flatten([i \in 1..Len(a.subcommands) |-> Named(a.subcommands[i])])

---------------------------------------------------------------------------
(* The reader as a state machine: one step per line taken from the stream  *)

MaxLines == 3            \* longest input stream
SmallLayers == 2         \* a maximumLayers low enough for the inputs to exceed

Lines ==
    { <<"[", "a", "]">>,
      <<"[", "a", ".", "b", "]">>,
      <<"[", "a", ".", "c", "]">>,
      <<"[", "a", ".", "b", ".", "c", "]">>,
      <<"[", "x", "]">>,
      <<"[", "D", "e", "f", "a", "u", "l", "t", "]">>,
      <<"k", "=", "1">>,
      <<"k", "=", "2">>,
      <<"a", ".", "k", "=", "1">>,
      <<"+", "+", "=", "1">>,
      <<"-", "-", "=", "1">>,
      <<"#", "k", "=", "1">>,
      <<>> }

Streams == UNION {[1..n -> Lines] : n \in 0..MaxLines}

Knobs(section, index, layers) ==
    [configSection |-> section, configIndex |-> index, maximumLayers |-> layers]

KnobChoices ==
    { Knobs(<<>>, NoConfigIndex, DefaultMaximumLayers),
      Knobs(<<>>, NoConfigIndex, SmallLayers),
      Knobs(<<"a">>, NoConfigIndex, DefaultMaximumLayers),
      Knobs(<<"a">>, 0, DefaultMaximumLayers) }

InitRead ==
    /\ mode = "from_config"
    /\ pc = "read"
    /\ knobs \in KnobChoices
    /\ input \in Streams
    /\ consumed = 0
    /\ fate = <<>>
    /\ currentSection = InitialLocals.currentSection
    /\ previousSection = InitialLocals.previousSection
    /\ output = InitialLocals.output
    /\ inSection = InitialLocals.inSection
    /\ currentSectionIndex = InitialLocals.currentSectionIndex
    /\ arg = <<>> /\ result = <<>>
    /\ NoWriter /\ NoBackend

NextLine == trim(input[consumed + 1])
Remaining == SubSeq(input, consumed + 2, Len(input))
Reading == mode = "from_config" /\ pc = "read" /\ consumed < Len(input)

SetLocals(s) ==
    /\ currentSection' = s.currentSection
    /\ previousSection' = s.previousSection
    /\ output' = s.output
    /\ inSection' = s.inSection
    /\ currentSectionIndex' = s.currentSectionIndex

\* a line shorter than three characters, or a comment line
ReadSkip ==
    /\ Reading
    /\ IsShort(NextLine) \/ IsComment(NextLine)
    /\ consumed' = consumed + 1
    /\ fate' = Append(fate, "skipped")
    /\ UNCHANGED <<mode, pc, knobs, input, currentSection, previousSection, output,
                   inSection, currentSectionIndex, quoteVars, writerVars, backendVars>>

ReadHeader ==
    /\ Reading
    /\ IsHeader(NextLine)
    /\ SetLocals(HeaderLine(Locals, NextLine))
    /\ consumed' = consumed + 1
    /\ fate' = Append(fate, "header")
    /\ UNCHANGED <<mode, pc, knobs, input, quoteVars, writerVars, backendVars>>

ReadKey ==
    /\ Reading
    /\ IsKey(NextLine)
    /\ \E r \in {KeyLine(Locals, knobs, NextLine, Remaining)} :
           /\ SetLocals(r.locals)
           /\ consumed' = consumed + 1 + r.used
           /\ fate' = fate \o <<r.fate>> \o [i \in 1..r.used |-> "continuation"]
    /\ UNCHANGED <<mode, pc, knobs, input, quoteVars, writerVars, backendVars>>

ReadEnd ==
    /\ mode = "from_config" /\ pc = "read" /\ consumed = Len(input)
    /\ SetLocals(EndOfInput(Locals))
    /\ pc' = "done"
    /\ UNCHANGED <<mode, knobs, input, consumed, fate, quoteVars, writerVars, backendVars>>

NextRead == ReadSkip \/ ReadHeader \/ ReadKey \/ ReadEnd

SpecRead == InitRead /\ [][NextRead]_vars


---------------------------------------------------------------------------
(* Vocabulary of the statements about the reader                           *)

IsMarker(item) == item.name \in {OpenMarker, CloseMarker}

NonMarkers(out) == SelectSeq(out, LAMBDA item : ~IsMarker(item))

Open(parents) == ConfigItem(parents, OpenMarker, <<>>)
Close(parents) == ConfigItem(parents, CloseMarker, <<>>)

\* the parent chain a section name stands for
Chain(section) == generate_parents(section, <<>>, parentSeparatorChar).parents

\* name and parent chain a key line resolves to under a section
Resolved(section, line) ==
    generate_parents(section, KeyLex(line, <<>>).name, parentSeparatorChar)

\* the markers of out nest properly and none is left open:
\* stack holds the chains of the scopes opened and not yet closed
RECURSIVE Nested(_, _)
Nested(out, stack) ==
    IF out = <<>> THEN stack = <<>>
    ELSE IF Head(out).name = OpenMarker
    THEN Nested(Tail(out), Append(stack, Head(out).parents))
    ELSE IF Head(out).name = CloseMarker
    THEN /\ stack # <<>>
         /\ stack[Len(stack)] = Head(out).parents
         /\ Nested(Tail(out), SubSeq(stack, 1, Len(stack) - 1))
    ELSE Nested(Tail(out), stack)

\* no key line of the stream is named like a marker
OrdinaryKeys(stream) ==
    \A i \in 1..Len(stream) :
        IsKey(trim(stream[i])) =>
            Resolved(default, trim(stream[i])).name \notin {OpenMarker, CloseMarker}

ReadDone == mode = "from_config" /\ pc = "done"

\* C1: the "++" and "--" records of the returned list are balanced and
\* properly nested: every "--" closes the innermost open "++" with the same
\* parents, and nothing is left open at the end. (Stated for streams whose
\* key lines have ordinary names.)
C1_MarkersBalanced ==
    (ReadDone /\ OrdinaryKeys(input)) => Nested(output, <<>>)

\* length of the ancestor chain the outgoing section shares with the new one:
\* the longest common prefix of old and the proper ancestors of new
SharedLen(old, new) ==
    LET S == {n \in 0..Min(Len(old), Len(new) - 1) :
                 SubSeq(old, 1, n) = SubSeq(new, 1, n)}
    IN  CHOOSE n \in S : \A m \in S : m <= n

\* close old's scopes beyond the shared chain, innermost first, then open
\* new's segments beyond it, outermost first
Reconciliation(old, new) ==
    LET n == SharedLen(old, new)
    IN  [i \in 1..(Len(old) - n) |-> Close(SubSeq(old, 1, Len(old) - i + 1))] \o
        [j \in 1..(Len(new) - n) |-> Open(SubSeq(new, 1, n + j))]

HeaderPair ==
    /\ Reading /\ IsHeader(NextLine)
    /\ currentSection # default
    /\ SectionOf(NextLine) # default

\* C2: a header read while another non-default section is current appends
\* exactly the closes of the outgoing scopes off the shared ancestor chain and
\* then the opens of the new segments beyond it; nothing on the shared chain
\* is closed or re-opened.
C2_Reconcile ==
    [][HeaderPair =>
          output' = output \o Reconciliation(Chain(currentSection),
                                             Chain(SectionOf(NextLine)))]_vars

\* [a.b] then [a.c] has been read: b was closed, c opened, a left alone
C2_Witness ==
    /\ mode = "from_config" /\ consumed >= 2 /\ Len(output) >= 4
    /\ fate[consumed - 1] = "header" /\ fate[consumed] = "header"
    /\ SubSeq(output, Len(output) - 3, Len(output)) =
          << Open(<< <<"a">> >>), Open(<< <<"a">>, <<"b">> >>),
             Close(<< <<"a">>, <<"b">> >>), Open(<< <<"a">>, <<"c">> >>) >>

KeyStep == Reading /\ IsKey(NextLine)

\* C4: a key line that directly follows a stored key line resolving to the
\* same name and parent chain adds its tokens, in order, to that line's
\* record and creates no record of its own.
C4_RunsAccumulate ==
    [][(/\ KeyStep
        /\ consumed >= 1
        /\ fate[consumed] = "stored"
        /\ Resolved(currentSection, trim(input[consumed])) =
              Resolved(currentSection, NextLine)
        /\ fate'[consumed + 1] = "stored")
       => /\ Len(output') = Len(output)
          /\ output' = [output EXCEPT ![Len(output)].inputs =
                           @ \o KeyLex(NextLine, Remaining).items]]_vars

\* C5: with a section filter, a key line is stored only when its resolved
\* chain begins with the configured section, and then without that leading
\* segment; a key line with an empty or differently rooted chain is dropped.
C5_FilterEveryLine ==
    [][(KeyStep /\ knobs.configSection # <<>>)
       => LET r == Resolved(currentSection, NextLine)
          IN  IF r.parents # <<>> /\ r.parents[1] = knobs.configSection
              THEN \/ output' = output
                   \/ /\ Back(output').name = r.name
                      /\ Back(output').parents = Tail(r.parents)
              ELSE output' = output]_vars

\* the section in force at line i of the stream: the last header before it
SectionAt(i) ==
    LET H == {j \in 1..(i - 1) : fate[j] = "header"}
    IN  IF H = {} THEN default
        ELSE SectionOf(trim(input[CHOOSE j \in H : \A m \in H : m <= j]))

TooDeep(i) ==
    Len(Resolved(SectionAt(i), trim(input[i])).parents) > knobs.maximumLayers

RECURSIVE Without(_, _, _)
\* the lines of stream whose index (offset by base) is not in drop
Without(stream, drop, base) ==
    IF stream = <<>> THEN <<>>
    ELSE (IF (base + 1) \in drop THEN <<>> ELSE <<Head(stream)>>) \o
         Without(Tail(stream), drop, base + 1)

\* C6: without a section filter, the key lines dropped are exactly those whose
\* resolved chain is longer than maximumLayers, every other key line is
\* stored, and the result equals the result for the stream without the
\* dropped lines.
C6_DepthLimit ==
    (mode = "from_config" /\ knobs.configSection = <<>>) =>
        /\ \A i \in 1..consumed :
              fate[i] \notin {"skipped", "header", "continuation"} =>
                  fate[i] = (IF TooDeep(i) THEN "too_deep" ELSE "stored")
        /\ pc = "done" =>
              output = from_config(
                  Without(input, {i \in 1..consumed : fate[i] = "too_deep"}, 0),
                  knobs)

\* a key line was dropped for its depth and a later key line was stored
C6_Witness ==
    /\ ReadDone /\ knobs.configSection = <<>>
    /\ \E i, j \in 1..consumed :
          i < j /\ fate[i] = "too_deep" /\ fate[j] = "stored"
    /\ NonMarkers(output) # <<>>

\* C7: the non-marker records only grow: a step leaves them as they are,
\* or a key line appends one record at the end, or a key line adds its tokens
\* to the last record of the list when that record has its name and parents.
C7_AppendOnly ==
    [][LET old == NonMarkers(output)
           new == NonMarkers(output')
       IN  \/ new = old
           \/ /\ KeyStep
              /\ Len(new) = Len(old) + 1
              /\ SubSeq(new, 1, Len(old)) = old
           \/ /\ KeyStep
              /\ old # <<>> /\ Back(output) = Back(old)
              /\ Back(old).name = Resolved(currentSection, NextLine).name
              /\ new = [old EXCEPT ![Len(old)].inputs =
                           @ \o KeyLex(NextLine, Remaining).items]]_vars

\* a record, then markers, then another record, all still in the result
C7_Witness ==
    /\ ReadDone
    /\ \E i, j, k \in 1..Len(output) :
          /\ i < j /\ j < k
          /\ ~IsMarker(output[i]) /\ IsMarker(output[j]) /\ ~IsMarker(output[k])

\* C8: every record named "++" or "--" is a marker with no inputs.
C8_MarkersEmpty ==
    mode = "from_config" =>
        \A i \in 1..Len(output) : IsMarker(output[i]) => output[i].inputs = <<>>


---------------------------------------------------------------------------
(* convert_arg_for_ini applied to one token                                *)

MaxArgLen == 3           \* longest token built from ArgChars

ArgChars == {"0", "1", "8", "x", "b", "o", ".", "-", "e", DQ}

ArgWords ==
    { TrueToken, FalseToken, NanToken, InfToken,
      <<"T", "r", "u", "e">>,
      <<"0", "X", "1">>, <<"0", "x", "1", "F">>, <<"0", "x", "1", "G">>,
      <<"3", ".", "1", "4">>, <<"h", "e", "l", "l", "o", " ", "w", "o", "r", "l", "d">>,
      <<"a", DQ, "b">> }

Args == UNION {[1..n -> ArgChars] : n \in 0..MaxArgLen} \cup ArgWords

InitQuote ==
    /\ mode = "convert_arg_for_ini"
    /\ pc = "call"
    /\ arg \in Args
    /\ result = <<>>
    /\ knobs = Knobs(<<>>, NoConfigIndex, DefaultMaximumLayers)
    /\ input = <<>> /\ consumed = 0 /\ fate = <<>>
    /\ currentSection = default /\ previousSection = default
    /\ output = <<>> /\ inSection = FALSE /\ currentSectionIndex = 0
    /\ NoWriter /\ NoBackend

Convert ==
    /\ mode = "convert_arg_for_ini" /\ pc = "call"
    /\ result' = convert_arg_for_ini(arg, stringQuote, characterQuote)
    /\ pc' = "done"
    /\ UNCHANGED <<mode, knobs, readerVars, arg, writerVars, backendVars>>

NextQuote == Convert

SpecQuote == InitQuote /\ [][NextQuote]_vars

\* the rules of the token classification, in their order
RuleApplies(n, a) ==
    CASE n = 1 -> a = <<>>
      [] n = 2 -> a \in {TrueToken, FalseToken, NanToken, InfToken}
      [] n = 3 -> /\ lexical_cast_double(a)
                  /\ ~(Len(a) >= 2 /\ a[1] = "0" /\ a[2] \in {"x", "X"})
      [] n = 4 -> Len(a) = 1
      [] n = 5 -> /\ Len(a) >= 2 /\ a[1] = "0"
                  /\ \E base \in { <<"x", HexDigits>>,
                                   <<"o", {"0", "1", "2", "3", "4", "5", "6", "7"}>>,
                                   <<"b", {"0", "1"}>> } :
                        a[2] = base[1] /\ \A i \in 3..Len(a) : a[i] \in base[2]
      [] n = 6 -> TRUE

FirstRule(a) == CHOOSE n \in 1..6 : RuleApplies(n, a) /\ \A m \in 1..(n - 1) : ~RuleApplies(m, a)

Wrapped(q, a) == <<q>> \o a \o <<q>>

RuleResult(n, a) ==
    CASE n = 1 -> <<stringQuote, stringQuote>>
      [] n \in {2, 3, 5} -> a
      [] n = 4 -> Wrapped(characterQuote, a)
      [] n = 6 -> IF \E i \in 1..Len(a) : a[i] = stringQuote
                  THEN Wrapped(characterQuote, a)
                  ELSE Wrapped(stringQuote, a)

\* C9: the text returned for a token is the one given by the first rule, in
\* the fixed order empty / keyword / number without hex prefix / single
\* character / 0x, 0o, 0b literal / quoted, that applies to it.
C9_FirstMatchWins ==
    (mode = "convert_arg_for_ini" /\ pc = "done") =>
        result = RuleResult(FirstRule(arg), arg)

\* a single digit was converted: both the number rule and the
\* single-character rule apply to it, and it came back unquoted
C9_Witness ==
    /\ mode = "convert_arg_for_ini" /\ pc = "done"
    /\ Len(arg) = 1 /\ RuleApplies(3, arg) /\ RuleApplies(4, arg)
    /\ result = arg


---------------------------------------------------------------------------
(* to_config applied to an option tree, and its text read back             *)

MaxDepth == 3            \* levels of subcommands below the root

Option(name, results, dflt) ==
    [name |-> name, configurable |-> TRUE, group |-> OptionsGroup,
     description |-> <<"o", "p", "t">>, results |-> results,
     default_str |-> dflt, expected_min |-> 1, run_callback_for_default |-> FALSE]

\* a single value, a list, and an unset option with a default
SomeOptions ==
    << Option(<<"v">>, << <<"1">> >>, <<>>),
       Option(<<"n">>, << <<"a", " ", "b">>, <<"2">> >>, <<>>),
       Option(<<"d">>, <<>>, <<"7">>) >>

\* what an App may hold
OptionLists == {<<>>, SomeOptions}

App(name, configurable, parsed, options, subcommands) ==
    [name |-> name, description |-> <<"a", "p", "p">>,
     group |-> <<"S", "u", "b", "s">>,
     configurable |-> configurable, parsed |-> parsed,
     options |-> options, subcommands |-> subcommands]

\* the name of a subcommand, by its level below the root
LevelName(level) ==
    CASE level = 1 -> <<"s">> [] level = 2 -> <<"u">> [] level = 3 -> <<"w">>
      [] OTHER -> <<"z">>

\* an App with the given subcommands: unnamed, or named with every
\* combination of configurable and invoked
AppsOver(name, lists, subs) ==
    {App(<<>>, TRUE, TRUE, o, c) : o \in lists, c \in subs} \cup
    {App(name, f[1], f[2], o, c) :
        f \in BOOLEAN \X BOOLEAN, o \in lists, c \in subs}

RECURSIVE Chains(_)
\* a subcommand at the given level with at most one subcommand of its own
Chains(level) ==
    IF level > MaxDepth THEN {}
    ELSE IF level = MaxDepth THEN AppsOver(LevelName(level), {SomeOptions}, {<<>>})
    ELSE AppsOver(LevelName(level), OptionLists,
                  {<<>>} \cup {<<c>> : c \in Chains(level + 1)})

RECURSIVE Invocable(_, _)
\* a subcommand is only invoked inside an invoked command; an unnamed one
\* (an option group) is part of the command that holds it
Invocable(a, within) ==
    \A i \in 1..Len(a.subcommands) :
        LET subcom == a.subcommands[i]
        IN  IF subcom.name = <<>> THEN Invocable(subcom, within)
            ELSE (subcom.parsed => within) /\ Invocable(subcom, subcom.parsed)

Roots ==
    {r \in {App(<<"r", "o", "o", "t">>, TRUE, TRUE, o, c) :
               o \in OptionLists,
               c \in {<<>>} \cup {<<x>> : x \in Chains(1)} \cup
                     {<<x, y>> : x \in Chains(1),
                                 y \in AppsOver(<<"t">>, {SomeOptions}, {<<>>})}} :
        Invocable(r, TRUE)}

InitWrite ==
    /\ mode = "to_config"
    /\ pc = "call"
    /\ app \in Roots
    /\ default_also \in BOOLEAN
    /\ write_description \in BOOLEAN
    /\ text = <<>> /\ reread = <<>>
    /\ knobs = Knobs(<<>>, NoConfigIndex, DefaultMaximumLayers)
    /\ input = <<>> /\ consumed = 0 /\ fate = <<>>
    /\ currentSection = default /\ previousSection = default
    /\ output = <<>> /\ inSection = FALSE /\ currentSectionIndex = 0
    /\ arg = <<>> /\ result = <<>>
    /\ NoBackend

WriteConfig ==
    /\ mode = "to_config" /\ pc = "call"
    /\ text' = to_config(app, <<>>, default_also, write_description, <<>>)
    /\ pc' = "written"
    /\ UNCHANGED <<mode, knobs, readerVars, quoteVars, app, default_also,
                   write_description, reread, backendVars>>

\* the text is handed to from_config as a stream of lines
ReadBack ==
    /\ mode = "to_config" /\ pc = "written"
    /\ reread' = from_config(getlines(text, NL), knobs)
    /\ pc' = "reread"
    /\ UNCHANGED <<mode, knobs, readerVars, quoteVars, app, default_also,
                   write_description, text, backendVars>>

NextWrite == WriteConfig \/ ReadBack

SpecWrite == InitWrite /\ [][NextWrite]_vars

RECURSIVE ValuesOf(_, _)
\* the values the tree holds: (parent chain, option name, result tokens) of
\* every configurable option with results, the chain being the names of the
\* named subcommands on the way down from the root
ValuesOf(a, chain) ==
    {<<chain, a.options[i].name, a.options[i].results>> :
        i \in {j \in 1..Len(a.options) :
                  a.options[j].configurable /\ a.options[j].results # <<>>}}
    \cup UNION {ValuesOf(a.subcommands[i],
                         IF a.subcommands[i].name = <<>> THEN chain
                         ELSE Append(chain, a.subcommands[i].name)) :
                  i \in 1..Len(a.subcommands)}

RECURSIVE AllNamed(_)
\* every subcommand below a has a name
AllNamed(a) ==
    \A i \in 1..Len(a.subcommands) :
        a.subcommands[i].name # <<>> /\ AllNamed(a.subcommands[i])

RecordsOf(out) ==
    {<<out[i].parents, out[i].name, out[i].inputs>> :
        i \in {j \in 1..Len(out) : ~IsMarker(out[j])}}

\* C3: the non-marker records read back from the text of to_config give the
\* (parent chain, name) -> tokens mapping of the tree's option values.
\* (Stated for trees whose subcommands are all named, written without
\* synthesized defaults.)
C3_RoundTrip ==
    (mode = "to_config" /\ pc = "reread" /\ ~default_also /\ AllNamed(app)) =>
        RecordsOf(reread) = ValuesOf(app, <<>>)

RECURSIVE HeadersOf(_, _)
\* the headers the walk is to emit, in its order (unnamed subcommands first):
\* the full dotted path of every named, configurable, invoked subcommand
HeadersOf(a, chain) ==
    LET Path(subcom) == IF subcom.name = <<>> THEN chain ELSE Append(chain, subcom.name)
        Below(subcom, unnamed) ==
            IF (subcom.name = <<>>) = unnamed
            THEN (IF subcom.name # <<>> /\ subcom.configurable /\ subcom.parsed
                  THEN << Path(subcom) >> ELSE <<>>) \o
                 HeadersOf(subcom, Path(subcom))
            ELSE <<>>
    IN  Flatten([i \in 1..Len(a.subcommands) |-> Below(a.subcommands[i], TRUE)]) \o
        Flatten([i \in 1..Len(a.subcommands) |-> Below(a.subcommands[i], FALSE)])

\* the bracket headers of a text, each split into its segments
HeaderChains(str) ==
    LET lines == getlines(str, NL)
        heads == SelectSeq(lines, LAMBDA l : l # <<>> /\ l[1] = "[")
    IN  [i \in 1..Len(heads) |->
            split(SubSeq(heads[i], 2, Len(heads[i]) - 1), parentSeparatorChar)]

\* C10: every bracket header of the text names the full dotted path of its
\* subcommand: the names of its named ancestors below the root, then its own.
\* (Stated for trees whose subcommands are all named.)
C10_FullPathHeaders ==
    (mode = "to_config" /\ pc \in {"written", "reread"} /\ AllNamed(app)) =>
        HeaderChains(text) = HeadersOf(app, <<>>)


---------------------------------------------------------------------------
(* Config::to_flag applied to one record                                   *)

MaxInputs == 3           \* most inputs a record handed to to_flag holds

\* detail::join(v, delim)
RECURSIVE join(_, _)
join(v, delim) ==
    IF v = <<>> THEN <<>>
    ELSE IF Len(v) = 1 THEN Head(v)
    ELSE Head(v) \o delim \o join(Tail(v), delim)

\* ConfigItem::fullname
fullname(it) == join(Append(it.parents, it.name), <<".">>)

\* what a call hands back: a value, or the exception that leaves it
Returns(value) == [kind |-> "value", value |-> value]
Throws(error, what) == [kind |-> "error", error |-> error, what |-> what]

\* ConversionError::TooManyInputsFlag(name)
TooManyInputsFlag(name) ==
    Throws("ConversionError", <<name, ": too many inputs for a flag">>)

\* if(item.inputs.size() == 1)
\* (mutation: any non-empty input list is taken for a single input)
SingleInput_NonEmpty(it) == Len(it.inputs) >= 1

SingleInput(it) == Len(it.inputs) = 1

to_flag(it) ==
    IF SingleInput(it) THEN Returns(it.inputs[1]) ELSE TooManyInputsFlag(fullname(it))

FlagInputs == { <<"t", "r", "u", "e">>, <<"1">>, <<>> }

FlagItems ==
    { ConfigItem(p, n, i) :
        p \in { <<>>, << <<"a">> >>, << <<"a">>, <<"b">> >> },
        n \in { <<"f">>, <<"g", "o">> },
        i \in UNION {[1..n -> FlagInputs] : n \in 0..MaxInputs} }

InitFlag ==
    /\ mode = "to_flag"
    /\ pc = "call"
    /\ flag_item \in FlagItems
    /\ flag = <<>>
    /\ knobs = Knobs(<<>>, NoConfigIndex, DefaultMaximumLayers)
    /\ input = <<>> /\ consumed = 0 /\ fate = <<>>
    /\ currentSection = default /\ previousSection = default
    /\ output = <<>> /\ inSection = FALSE /\ currentSectionIndex = 0
    /\ arg = <<>> /\ result = <<>>
    /\ NoWriter /\ NoSplit /\ NoToml

ToFlag ==
    /\ mode = "to_flag" /\ pc = "call"
    /\ flag' = to_flag(flag_item)
    /\ pc' = "done"
    /\ UNCHANGED <<mode, knobs, readerVars, quoteVars, writerVars, flag_item,
                   splitVars, tomlVars>>

NextFlag == ToFlag

SpecFlag == InitFlag /\ [][NextFlag]_vars

\* parents and name written one after the other with a "." between them
RECURSIVE Dotted(_, _)
Dotted(parents, name) ==
    IF parents = <<>> THEN name
    ELSE Head(parents) \o <<".">> \o Dotted(Tail(parents), name)

\* C13: to_flag returns the input of a record with exactly one input, and
\* for any other number of inputs returns nothing and fails with a
\* conversion error that carries the record's full dotted name.
C13_ToFlag ==
    (mode = "to_flag" /\ pc = "done") =>
        IF Len(flag_item.inputs) = 1
        THEN flag = Returns(flag_item.inputs[1])
        ELSE /\ flag.kind = "error"
             /\ flag.error = "ConversionError"
             /\ flag.what[1] = Dotted(flag_item.parents, flag_item.name)

\* a record a.b.f with two inputs was refused under its full name
C13_Witness ==
    /\ mode = "to_flag" /\ pc = "done"
    /\ flag.kind = "error"
    /\ flag_item.parents = << <<"a">>, <<"b">> >>
    /\ Len(flag_item.inputs) = 2
    /\ flag.what[1] = <<"a", ".", "b", ".", "f">>


---------------------------------------------------------------------------
(* detail::_split_result_str applied to one raw string                     *)

MaxRawLen == 5           \* longest raw string built from RawChars

\* the strings of v that are not empty, in order (the if(!var.empty()) tests)
NonEmpty(v) == SelectSeq(v, LAMBDA var : var # <<>>)

\* result.front() == '[' && result.back() == ']' on a non-empty string
IsVectorString(str) == str # <<>> /\ str[1] = "[" /\ str[Len(str)] = "]"

RECURSIVE _split_result_str(_, _), SplitEach(_, _)

\* the loop of lines 183-187 over the pieces between the commas
SplitEach(pieces, delimiter_) ==
    IF pieces = <<>> THEN <<>>
    ELSE (IF Head(pieces) # <<>>
          THEN _split_result_str(Head(pieces), delimiter_)
          ELSE <<>>) \o
         SplitEach(Tail(pieces), delimiter_)

\* the tokens pushed to res; result_count is their number
_split_result_str(str, delimiter_) ==
    IF IsVectorString(str)
    THEN SplitEach(split(SubSeq(str, 2, Len(str) - 1), ","), delimiter_)
    ELSE IF delimiter_ = NUL THEN <<str>>
    ELSE IF FindChar(str, delimiter_) # 0 THEN NonEmpty(split(str, delimiter_))
    ELSE <<str>>

RawChars == {"[", "]", ",", "a", ";"}

RawWords ==
    { <<"[", "a", ",", "b", "]">>,
      <<"[", "[", "a", "]", "]">>,
      <<"[", "[", "a", ",", "b", "]", "]">>,
      <<"[", "[", "a", ",", "b", "]", ",", "[", "c", "]", "]">> }

Raws == UNION {[1..n -> RawChars] : n \in 0..MaxRawLen} \cup RawWords

InitSplit ==
    /\ mode = "_split_result_str"
    /\ pc = "call"
    /\ raw \in [result : Raws, delimiter_ : {NUL, ";"}]
    /\ res = <<>> /\ result_count = 0
    /\ knobs = Knobs(<<>>, NoConfigIndex, DefaultMaximumLayers)
    /\ input = <<>> /\ consumed = 0 /\ fate = <<>>
    /\ currentSection = default /\ previousSection = default
    /\ output = <<>> /\ inSection = FALSE /\ currentSectionIndex = 0
    /\ arg = <<>> /\ result = <<>>
    /\ NoWriter /\ NoFlag /\ NoToml

SplitResult ==
    /\ mode = "_split_result_str" /\ pc = "call"
    /\ res' = res \o _split_result_str(raw.result, raw.delimiter_)
    /\ result_count' = Len(_split_result_str(raw.result, raw.delimiter_))
    /\ pc' = "done"
    /\ UNCHANGED <<mode, knobs, readerVars, quoteVars, writerVars, flagVars,
                   raw, tomlVars>>

NextSplit == SplitResult

SpecSplit == InitSplit /\ [][NextSplit]_vars

\* nesting depth after each character of str
RECURSIVE DepthAt(_, _)
DepthAt(str, i) ==
    IF i = 0 THEN 0
    ELSE DepthAt(str, i - 1) +
         (IF str[i] = "[" THEN 1 ELSE IF str[i] = "]" THEN -1 ELSE 0)

\* a bracket-delimited literal whose brackets nest, every "[" opening an
\* element and every "]" closing one
WellFormedArray(str) ==
    /\ Len(str) >= 2 /\ str[1] = "[" /\ str[Len(str)] = "]"
    /\ DepthAt(str, Len(str)) = 0
    /\ \A i \in 1..(Len(str) - 1) : DepthAt(str, i) > 0
    /\ \A i \in 2..Len(str) : str[i] = "[" => str[i - 1] \in {"[", ","}
    /\ \A i \in 1..(Len(str) - 1) : str[i] = "]" => str[i + 1] \in {"]", ","}

\* the leaves of a literal, left to right: what is left between the commas
\* once the brackets are gone, empty elements dropped
LeavesOf(str) ==
    NonEmpty(split(SelectSeq(str, LAMBDA c : c \notin {"[", "]"}), ","))

\* C17: for a well-formed, possibly nested array literal the tokens appended
\* are exactly its non-empty leaves, left to right and free of brackets, and
\* the count returned is their number. (Stated for a delimiter that does not
\* occur in the literal.)
C17_NestedLeaves ==
    (/\ mode = "_split_result_str" /\ pc = "done"
     /\ WellFormedArray(raw.result)
     /\ FindChar(raw.result, raw.delimiter_) = 0)
    => /\ res = LeavesOf(raw.result)
       /\ result_count = Len(res)


---------------------------------------------------------------------------
(* to_config applied to a command holding one option, set or not           *)

MaxResults == 1          \* most results the single option holds

DefaultTexts == { <<>>, <<"7">>, <<"a", " ", "b">> }

SingleOptions ==
    { [name |-> <<"o">>, configurable |-> TRUE, group |-> OptionsGroup,
       description |-> d, results |-> r, default_str |-> t,
       expected_min |-> e, run_callback_for_default |-> c] :
        d \in { <<>>, <<"o", "p", "t">> },
        r \in UNION {[1..n -> { <<"1">> }] : n \in 0..MaxResults},
        t \in DefaultTexts,
        e \in {0, 1},
        c \in BOOLEAN }

InitDefaults ==
    /\ mode = "to_config"
    /\ pc = "call"
    /\ app \in {App(<<"r", "o", "o", "t">>, TRUE, TRUE, <<o>>, <<>>) : o \in SingleOptions}
    /\ default_also \in BOOLEAN
    /\ write_description \in BOOLEAN
    /\ text = <<>> /\ reread = <<>>
    /\ knobs = Knobs(<<>>, NoConfigIndex, DefaultMaximumLayers)
    /\ input = <<>> /\ consumed = 0 /\ fate = <<>>
    /\ currentSection = default /\ previousSection = default
    /\ output = <<>> /\ inSection = FALSE /\ currentSectionIndex = 0
    /\ arg = <<>> /\ result = <<>>
    /\ NoBackend

SpecDefaults == InitDefaults /\ [][NextWrite]_vars

\* the comment to_config writes for the root command
RootComment == <<"#", " ", "a", "p", "p", NL>>

\* the comment and the line of the single option, given its value
OptionLine(opt, value) ==
    (IF write_description /\ opt.description # <<>>
     THEN <<NL, "#", " ">> \o opt.description \o <<NL>>
     ELSE <<>>) \o
    opt.name \o <<"=">> \o value \o <<NL>>

Unset == app.options[1].results = <<>>

\* C19: an option without results gets a line only with default_also, its
\* value being the first of: the default text quoted by the token rules,
\* false for a zero-arity option, "" for one that runs its callback for
\* defaults; otherwise neither line nor description comment is written.
C19_SynthesizedDefaults ==
    (mode = "to_config" /\ pc # "call" /\ Len(app.options) = 1 /\ Unset) =>
        LET opt == app.options[1]
            written == SubSeq(text, (IF write_description THEN Len(RootComment) ELSE 0) + 1,
                              Len(text))
        IN  /\ write_description => SubSeq(text, 1, Len(RootComment)) = RootComment
            /\ written =
                  IF ~default_also THEN <<>>
                  ELSE IF opt.default_str # <<>>
                  THEN OptionLine(opt, RuleResult(FirstRule(opt.default_str), opt.default_str))
                  ELSE IF opt.expected_min = 0 THEN OptionLine(opt, FalseToken)
                  ELSE IF opt.run_callback_for_default THEN OptionLine(opt, <<DQ, DQ>>)
                  ELSE <<>>

\* an unset zero-arity option with a default text was written with that text
C19_Witness ==
    /\ mode = "to_config" /\ pc = "written" /\ Len(app.options) = 1 /\ Unset
    /\ default_also /\ ~write_description
    /\ app.options[1].expected_min = 0
    /\ app.options[1].default_str = <<"a", " ", "b">>
    /\ text = <<"o", "=", DQ, "a", " ", "b", DQ, NL>>


---------------------------------------------------------------------------
(* The key lines to_config writes below a header                           *)

\* the records of out that follow its first marker: those read from the
\* lines below the first header
RECURSIVE BelowHeader(_)
BelowHeader(out) ==
    IF out = <<>> THEN <<>>
    ELSE IF IsMarker(Head(out)) THEN Tail(out)
    ELSE BelowHeader(Tail(out))

\* C16: every key line written after a header belongs to the command the
\* header names or to a descendant reached through the key's dotted prefix:
\* read under that header it has the parent chain of its own command.
\* (Stated for trees whose subcommands are all named and whose headers are
\* the full paths, written without synthesized defaults.)
C16_KeysUnderTheirHeader ==
    (/\ mode = "to_config" /\ pc = "reread" /\ ~default_also
     /\ AllNamed(app)
     /\ HeaderChains(text) = HeadersOf(app, <<>>))
    => RecordsOf(BelowHeader(reread)) \subseteq ValuesOf(app, <<>>)


---------------------------------------------------------------------------
(* The reader on streams of repeated headers, with an instance index       *)

MaxIndexLines == 4       \* longest stream of repeated headers and keys

IndexLines ==
    { <<"[", "a", "]">>,
      <<"[", "b", "]">>,
      <<"[", "D", "e", "f", "a", "u", "l", "t", "]">>,
      <<"a", ".", "k", "=", "1">>,
      <<"k", "=", "1">>,
      <<>> }

IndexKnobs ==
    { Knobs(<<>>, NoConfigIndex, DefaultMaximumLayers),
      Knobs(<<"a">>, 0, DefaultMaximumLayers),
      Knobs(<<"a">>, 1, DefaultMaximumLayers) }

InitIndex ==
    /\ mode = "from_config"
    /\ pc = "read"
    /\ knobs \in IndexKnobs
    /\ input \in UNION {[1..n -> IndexLines] : n \in 0..MaxIndexLines}
    /\ consumed = 0
    /\ fate = <<>>
    /\ currentSection = InitialLocals.currentSection
    /\ previousSection = InitialLocals.previousSection
    /\ output = InitialLocals.output
    /\ inSection = InitialLocals.inSection
    /\ currentSectionIndex = InitialLocals.currentSectionIndex
    /\ arg = <<>> /\ result = <<>>
    /\ NoWriter /\ NoBackend

SpecIndex == InitIndex /\ [][NextRead]_vars

\* the section names of the headers among the first n lines, in order
RECURSIVE HeaderNames(_)
HeaderNames(n) ==
    IF n = 0 THEN <<>>
    ELSE HeaderNames(n - 1) \o
         (IF fate[n] = "header" THEN <<SectionOf(trim(input[n]))>> ELSE <<>>)

\* how many of the last names are the same as the last one
RECURSIVE RunLength(_)
RunLength(names) ==
    IF Len(names) <= 1 THEN Len(names)
    ELSE IF names[Len(names)] = names[Len(names) - 1]
    THEN 1 + RunLength(SubSeq(names, 1, Len(names) - 1))
    ELSE 1

\* the instance index in force after the first n lines: 0 under the first of
\* a run of headers with one name, one more for each repeat
IndexAfter(n) ==
    IF HeaderNames(n) = <<>> THEN 0 ELSE RunLength(HeaderNames(n)) - 1

\* C15: the section index is 0 under the first header of a name, [default]
\* included, grows by one with each directly repeated header and returns to 0
\* when another name intervenes; with a section filter and configIndex N >= 0
\* a key line is stored only while the index is N.
C15_SectionIndex ==
    mode = "from_config" =>
        /\ currentSectionIndex = IndexAfter(consumed)
        /\ (knobs.configSection # <<>> /\ knobs.configIndex >= 0) =>
              \A i \in 1..consumed :
                  fate[i] = "stored" => IndexAfter(i - 1) = knobs.configIndex


---------------------------------------------------------------------------
(* The reader on streams holding arrays that run over several lines        *)

MaxArrayLines == 4       \* longest stream of array pieces and other lines

ArrayLines ==
    { <<"k", "=", "[", "1", ",">>,
      <<"k", "=", "[">>,
      <<"2", "]">>,
      <<"2", "]", " ", "#", "x">>,
      <<"k", "=", "1">>,
      <<"[", "a", "]">> }

InitArrays ==
    /\ mode = "from_config"
    /\ pc = "read"
    /\ knobs = Knobs(<<>>, NoConfigIndex, DefaultMaximumLayers)
    /\ input \in UNION {[1..n -> ArrayLines] : n \in 0..MaxArrayLines}
    /\ consumed = 0
    /\ fate = <<>>
    /\ currentSection = InitialLocals.currentSection
    /\ previousSection = InitialLocals.previousSection
    /\ output = InitialLocals.output
    /\ inSection = InitialLocals.inSection
    /\ currentSectionIndex = InitialLocals.currentSectionIndex
    /\ arg = <<>> /\ result = <<>>
    /\ NoWriter /\ NoBackend

SpecArrays == InitArrays /\ [][NextRead]_vars

\* the value of a key line: what follows the delimiter, comment removed
ValueOf(line) ==
    IF FindChar(line, valueDelimiter) = 0 THEN <<>>
    ELSE BeforeComment(trim(SubSeq(line, FindChar(line, valueDelimiter) + 1, Len(line))))

\* the value opens an array and its line does not close it
OpensArray(line) ==
    /\ ValueOf(line) # <<>>
    /\ ValueOf(line)[1] = aStart
    /\ FindChar(ValueOf(line), aEnd) = 0

\* how many of the lines that follow are taken: up to and including the
\* first one holding the array-end character, all of them if there is none
LinesToClose(rest) ==
    LET I == {i \in 1..Len(rest) : FindChar(rest[i], aEnd) # 0}
    IN  IF I = {} THEN Len(rest) ELSE CHOOSE i \in I : \A m \in I : i <= m

\* C20: a key line whose value opens an array without closing it takes the
\* following raw lines up to and including the first one in which the
\* array-end character occurs; these lines make no record and change no
\* section, and the line after them is the next one read.
C20_ArrayContinuation ==
    [][(KeyStep /\ OpensArray(NextLine))
       => /\ consumed' = consumed + 1 + LinesToClose(Remaining)
          /\ \A i \in (consumed + 2)..consumed' : fate'[i] = "continuation"
          /\ currentSection' = currentSection
          /\ Len(output') <= Len(output) + 1]_vars

---------------------------------------------------------------------------
(* ConfigTOML::from_config: a toml value converted to records              *)

MaxEntries == 2       \* entries of one table
MaxTomlDepth == 2     \* tables inside tables below the root

\* toml::value: a type (toml::value_t) and what as_boolean(), as_string(),
\* as_integer(), as_array() or as_table() gives
toml_empty == [type |-> "empty"]
toml_boolean(b) == [type |-> "boolean", boolean |-> b]
toml_string(s) == [type |-> "string", string |-> s]
toml_integer(n) == [type |-> "integer", integer |-> n]
toml_array(elements) == [type |-> "array", array |-> elements]
toml_table(entries) == [type |-> "table", table |-> entries]

\* one element of a table: element.first and element.second
Entry(key, value) == [key |-> key, value |-> value]

\* std::to_string of an int, the digits of a number below ten
DigitOf(n) == CASE n = 0 -> "0" [] n = 1 -> "1" [] n = 2 -> "2" [] n = 3 -> "3"
                [] n = 4 -> "4" [] n = 5 -> "5" [] n = 6 -> "6" [] n = 7 -> "7"
                [] n = 8 -> "8" [] n = 9 -> "9"

RECURSIVE to_string(_)
to_string(n) ==
    IF n < 0 THEN <<"-">> \o to_string(0 - n)
    ELSE IF n < 10 THEN <<DigitOf(n)>>
    ELSE to_string(n \div 10) \o <<DigitOf(n % 10)>>

\* the cases of the two switches that turn one value into one string:
\* a bool goes through std::to_string as the int 1 or 0
ScalarTypes == {"boolean", "string", "integer"}

ScalarText(value) ==
    CASE value.type = "boolean" -> to_string(IF value.boolean THEN 1 ELSE 0)
      [] value.type = "string"  -> value.string
      [] value.type = "integer" -> to_string(value.integer)

\* the pieces an error message is streamed from
Literal(s) == [literal |-> s]
Inserted(key) == [inserted |-> key]

\* CLI::ParseError(message, exit code)
ParseError(what, exit_code) == Throws(exit_code, what)

\* the three throw statements of the TOML reader
ArrayOfTables ==
    ParseError(<<Literal("TOML arrays of tables are not supported for conversion to ConfigItem")>>,
               "ConversionError")

UnknownElement(key) ==
    ParseError(<<Literal("Could not convert an element of the array \""),
                 Inserted(key),
                 Literal("\" from any known TOML type.")>>,
               "ConversionError")

UnknownPair(key) ==
    ParseError(<<Literal("Could not convert the key-value pair \""),
                 Inserted(key),
                 Literal("\" from any known TOML type.")>>,
               "ConversionError")

\* parse_toml_array: the strings of an array, the arrays inside it included,
\* or the exception that leaves the loop at the first element it refuses
RECURSIVE parse_toml_array(_, _), ParseElements(_, _, _), AfterNested(_, _, _, _)
ParseElements(elements, key, array_str) ==
    IF elements = <<>> THEN Returns(array_str)
    ELSE IF Head(elements).type = "table" THEN ArrayOfTables
    ELSE IF Head(elements).type \in ScalarTypes
    THEN ParseElements(Tail(elements), key,
                       Append(array_str, ScalarText(Head(elements))))
    ELSE IF Head(elements).type = "array"
    THEN AfterNested(parse_toml_array(Head(elements).array, key),
                     Tail(elements), key, array_str)
    ELSE UnknownElement(key)

AfterNested(res_vector, elements, key, array_str) ==
    IF res_vector.kind = "error" THEN res_vector
    ELSE ParseElements(elements, key, array_str \o res_vector.value)

parse_toml_array(array, key) == ParseElements(array, key, <<>>)

\* res.inputs as the switch of _from_config assigns it
InputsOf(value, key) ==
    IF value.type \in ScalarTypes THEN Returns(<<ScalarText(value)>>)
    ELSE IF value.type = "array" THEN parse_toml_array(value.array, key)
    ELSE UnknownPair(key)

\* one call of _from_config under way: its table, the element the loop is
\* at, and its locals prefix and results
Frame(table, prefix) ==
    [table |-> table, at |-> 1, prefix |-> prefix, results |-> <<>>]

\* prefix.pop_back()
\* (mutation: the key of the table just converted stays on the prefix)
pop_back_Kept(prefix) == prefix

pop_back(prefix) == SubSeq(prefix, 1, Len(prefix) - 1)

\* an exception leaves every call under way: their locals are destroyed and
\* the caller of from_config gets the exception
\* (mutation: the records of the outermost call are handed back instead)
Unwind_Partial(calls, exception) ==
    [frames |-> <<>>, returned |-> Returns(calls[1].results)]

Unwind(calls, exception) == [frames |-> <<>>, returned |-> exception]

\* the values the model reads: below the root, strings and arrays of tables
InnerLeaves ==
    { toml_string(<<"x">>),
      toml_array(<<toml_string(<<"y">>), toml_table(<<>>)>>) }

\* at the root also a boolean, an array of a string, an integer and an
\* array, an empty value, an array of an array of a table, and an array
\* holding an empty value
RootLeaves ==
    InnerLeaves \cup
    { toml_boolean(TRUE),
      toml_array(<<toml_string(<<"x">>), toml_integer(12),
                   toml_array(<<toml_boolean(FALSE)>>)>>),
      toml_empty,
      toml_array(<<toml_array(<<toml_table(<<>>)>>)>>),
      toml_array(<<toml_integer(2), toml_empty>>) }

\* the keys of a table, in the order the loop meets them
TomlKeys == << <<"a">>, <<"b">>, <<"c">>, <<"d">> >>

\* tables of up to MaxEntries entries; only the first entry may be a table
RECURSIVE TablesAt(_)
TablesAt(level) ==
    LET first == IF level < MaxTomlDepth
                 THEN InnerLeaves \cup { toml_table(t) : t \in TablesAt(level + 1) }
                 ELSE InnerLeaves
    IN  {<<>>} \cup
        { [i \in 1..(Len(rest) + 1) |->
              Entry(TomlKeys[i], IF i = 1 THEN v ELSE rest[i - 1])] :
            v \in first,
            rest \in UNION {[1..n -> InnerLeaves] : n \in 0..(MaxEntries - 1)} }

RootTables ==
    {<<>>} \cup
    { [i \in 1..(Len(rest) + 1) |->
          Entry(TomlKeys[i], IF i = 1 THEN v ELSE rest[i - 1])] :
        v \in RootLeaves \cup { toml_table(t) : t \in TablesAt(1) },
        rest \in UNION {[1..n -> RootLeaves] : n \in 0..(MaxEntries - 1)} }

InitToml ==
    /\ mode = "toml_from_config"
    /\ pc = "convert"
    /\ config_file \in { toml_table(t) : t \in RootTables }
    /\ frames = <<Frame(config_file.table, <<>>)>>
    /\ returned = <<>>
    /\ knobs = Knobs(<<>>, NoConfigIndex, DefaultMaximumLayers)
    /\ input = <<>> /\ consumed = 0 /\ fate = <<>>
    /\ currentSection = default /\ previousSection = default
    /\ output = <<>> /\ inSection = FALSE /\ currentSectionIndex = 0
    /\ arg = <<>> /\ result = <<>>
    /\ NoWriter /\ NoFlag /\ NoSplit

\* the innermost call and the element its loop is at
Innermost == frames[Len(frames)]

AtElement(call) == call.at <= Len(call.table)

Converting == mode = "toml_from_config" /\ pc = "convert"

TomlUnchanged ==
    UNCHANGED <<mode, knobs, readerVars, quoteVars, writerVars, flagVars,
                splitVars, config_file>>

\* if(value.is_uninitialized()) continue;
TomlSkip ==
    /\ Converting
    /\ \E call \in {Innermost} :
          /\ AtElement(call)
          /\ call.table[call.at].value.type = "empty"
          /\ frames' = [frames EXCEPT ![Len(frames)].at = call.at + 1]
    /\ UNCHANGED <<pc, returned>>
    /\ TomlUnchanged

\* else if(value.is_table()): prefix.push_back(key) and the recursive call,
\* which gets its own copy of the prefix
TomlTable ==
    /\ Converting
    /\ \E call \in {Innermost} :
          /\ AtElement(call)
          /\ call.table[call.at].value.type = "table"
          /\ \E pushed \in {Append(call.prefix, call.table[call.at].key)} :
                frames' = Append([frames EXCEPT ![Len(frames)].prefix = pushed],
                                 Frame(call.table[call.at].value.table, pushed))
    /\ UNCHANGED <<pc, returned>>
    /\ TomlUnchanged

\* else: a record of the key and the prefix, its inputs from the switch; an
\* exception of the switch leaves every call
TomlItem ==
    /\ Converting
    /\ \E call \in {Innermost} :
          /\ AtElement(call)
          /\ call.table[call.at].value.type \notin {"empty", "table"}
          /\ \E conv \in {InputsOf(call.table[call.at].value,
                                   call.table[call.at].key)} :
                IF conv.kind = "value"
                THEN /\ frames' =
                          [frames EXCEPT
                             ![Len(frames)].results =
                                 Append(call.results,
                                        ConfigItem(call.prefix,
                                                   call.table[call.at].key,
                                                   conv.value)),
                             ![Len(frames)].at = call.at + 1]
                     /\ UNCHANGED <<pc, returned>>
                ELSE \E left \in {Unwind(frames, conv)} :
                        /\ frames' = left.frames
                        /\ returned' = left.returned
                        /\ pc' = "done"
    /\ TomlUnchanged

\* return results: into the caller's results, which then pops its prefix
\* and goes on with its next element, or to the caller of from_config
TomlReturn ==
    /\ Converting
    /\ \E call \in {Innermost} :
          /\ ~AtElement(call)
          /\ IF Len(frames) = 1
             THEN /\ frames' = <<>>
                  /\ returned' = Returns(call.results)
                  /\ pc' = "done"
             ELSE /\ \E caller \in {frames[Len(frames) - 1]} :
                        frames' =
                          [SubSeq(frames, 1, Len(frames) - 1) EXCEPT
                             ![Len(frames) - 1] =
                                 [caller EXCEPT
                                    !.results = caller.results \o call.results,
                                    !.prefix = pop_back(caller.prefix),
                                    !.at = caller.at + 1]]
                  /\ UNCHANGED <<pc, returned>>
    /\ TomlUnchanged

NextToml == TomlSkip \/ TomlTable \/ TomlItem \/ TomlReturn

SpecToml == InitToml /\ [][NextToml]_vars

\* the parents and name a tree promises: for every scalar or array entry, in
\* the order of the tables, the keys of the tables on the way down to it
RECURSIVE PathRecords(_, _)
PathRecords(entries, path) ==
    IF entries = <<>> THEN <<>>
    ELSE LET e == Head(entries)
         IN  (IF e.value.type = "table"
              THEN PathRecords(e.value.table, Append(path, e.key))
              ELSE IF e.value.type = "empty" THEN <<>>
              ELSE <<[parents |-> path, name |-> e.key]>>)
             \o PathRecords(Tail(entries), path)

ParentsAndNames(records) ==
    [i \in DOMAIN records |->
        [parents |-> records[i].parents, name |-> records[i].name]]

\* the key of the element the k-th call under way is at
KeyAt(k) == frames[k].table[frames[k].at].key

RECURSIVE RefusedArray(_)
RefusedArray(elements) ==
    \E i \in DOMAIN elements :
        \/ elements[i].type \notin ScalarTypes \cup {"array"}
        \/ elements[i].type = "array" /\ RefusedArray(elements[i].array)

\* a table holds, at any depth, an entry the reader refuses
RECURSIVE Unsupported(_)
Unsupported(entries) ==
    \E i \in DOMAIN entries :
        \/ entries[i].value.type = "array" /\ RefusedArray(entries[i].value.array)
        \/ entries[i].value.type = "table" /\ Unsupported(entries[i].value.table)

\* C14: the caller of from_config gets nothing while the conversion runs,
\* and when the tree holds an unsupported entry anywhere it gets the error
\* and nothing else: no record, and no call is left holding any.
C14_AtomicFailure ==
    mode = "toml_from_config" =>
      /\ pc = "convert" => returned = <<>>
      /\ (pc = "done" /\ Unsupported(config_file.table)) =>
            /\ returned.kind = "error"
            /\ DOMAIN returned = {"kind", "error", "what"}
            /\ frames = <<>>

\* the conversion failed on the second entry of the root after the table
\* that is its first entry had been converted to a record
C14_Witness ==
    /\ mode = "toml_from_config" /\ pc = "done" /\ returned.kind = "error"
    /\ Len(config_file.table) = 2
    /\ config_file.table[1].value.type = "table"
    /\ ~Unsupported(config_file.table[1].value.table)
    /\ PathRecords(config_file.table[1].value.table, <<>>) # <<>>

\* an array holds a table, at any depth of arrays
RECURSIVE HoldsTable(_)
HoldsTable(elements) ==
    \E i \in DOMAIN elements :
        \/ elements[i].type = "table"
        \/ elements[i].type = "array" /\ HoldsTable(elements[i].array)

\* the keys, at any depth of tables, of the arrays that hold a table
RECURSIVE OffendingKeys(_)
OffendingKeys(entries) ==
    UNION { IF entries[i].value.type = "array" /\ HoldsTable(entries[i].value.array)
            THEN {entries[i].key}
            ELSE IF entries[i].value.type = "table"
            THEN OffendingKeys(entries[i].value.table)
            ELSE {} : i \in DOMAIN entries }

\* the keys an error message names
NamedIn(what) ==
    { what[i].inserted : i \in { n \in DOMAIN what : "inserted" \in DOMAIN what[n] } }

\* C12: when an array anywhere in the tree holds a table, from_config fails
\* with a conversion error, and the error names the key of an array that
\* holds a table.
C12_ArrayOfTablesNamed ==
    (mode = "toml_from_config" /\ pc = "done"
       /\ OffendingKeys(config_file.table) # {}) =>
      /\ returned.kind = "error"
      /\ returned.error = "ConversionError"
      /\ NamedIn(returned.what) \cap OffendingKeys(config_file.table) # {}

---------------------------------------------------------------------------
(* ConfigTOML::to_config: the options of an App written as a toml value    *)

MaxTomlResults == 2   \* most results one option holds

\* what ConfigTOML::to_config reads of an Option
TomlOption(lnames, snames, configurable, type_size, results, dflt, descr) ==
    [lnames |-> lnames, snames |-> snames, configurable |-> configurable,
     type_size |-> type_size, results |-> results, default_str |-> dflt,
     delimiter |-> NUL, description |-> descr]

\* Option::count(): the number of results
count(opt) == Len(opt.results)

\* (!opt->get_lnames().empty() || !opt->get_snames().empty())
\*   && opt->get_configurable()
Processed(opt) ==
    (opt.lnames # <<>> \/ opt.snames # <<>>) /\ opt.configurable

\* the long name if there is one, otherwise the short name
KeyOf(opt) == IF opt.lnames # <<>> THEN opt.lnames[1] ELSE opt.snames[1]

\* a toml value from a std::vector<std::string>
StringArray(strs) == toml_array([i \in DOMAIN strs |-> toml_string(strs[i])])

\* detail::get_description_for_TOML: the lines of a description, each with
\* a space put before it unless it starts with white space
DescriptionLine(line) == IF IsSpace(line[1]) THEN line ELSE <<" ">> \o line

get_description_for_TOML(description) ==
    LET lines == getlines(description, NL)
    IN  [i \in DOMAIN lines |-> DescriptionLine(lines[i])]

\* value.comments() = comment
Commented(value, comment) == [comments |-> comment] @@ value

\* j[key] = value: an uninitialized j becomes a table; a key already there
\* gets the new value
Assign(j, key, value) ==
    LET entries == IF j.type = "table" THEN j.table ELSE <<>>
    IN  IF \E i \in DOMAIN entries : entries[i].key = key
        THEN toml_table([i \in DOMAIN entries |->
                            IF entries[i].key = key THEN Entry(key, value)
                            ELSE entries[i]])
        ELSE toml_table(Append(entries, Entry(key, value)))

\* j[name] = opt->results() for a flag that was given once
OneFlagValue(opt) == StringArray(opt.results)

\* the value the loop over the options assigns to j[name], or missing_entry
MissingEntry == [type |-> "missing_entry"]

DefaultValue(default_vals) ==
    IF Len(default_vals) = 1 THEN toml_string(default_vals[1])
    ELSE StringArray(default_vals)

OptionValue(opt, dflt) ==
    IF opt.type_size # 0
    THEN IF count(opt) = 1 THEN toml_string(opt.results[1])
         ELSE IF count(opt) > 1 THEN StringArray(opt.results)
         ELSE IF dflt /\ opt.default_str # <<>>
         THEN DefaultValue(_split_result_str(opt.default_str, opt.delimiter))
         ELSE IF dflt THEN toml_string(<<>>)
         ELSE MissingEntry
    ELSE IF count(opt) = 1 THEN OneFlagValue(opt)
    ELSE IF count(opt) > 1 THEN toml_integer(count(opt))
    ELSE IF dflt THEN toml_string(opt.default_str)
    ELSE toml_boolean(FALSE)

\* one turn of the loop over the options
PutOption(j, opt, value, descr) ==
    IF ~Processed(opt) \/ value = MissingEntry THEN j
    ELSE Assign(j, KeyOf(opt),
                IF descr
                THEN Commented(value, get_description_for_TOML(opt.description))
                ELSE value)

RECURSIVE PutOptions(_, _, _, _)
PutOptions(j, options, dflt, descr) ==
    IF options = <<>> THEN j
    ELSE PutOptions(PutOption(j, Head(options),
                              OptionValue(Head(options), dflt), descr),
                    Tail(options), dflt, descr)

\* the lambda get_values: the value j it returns and is_initialised, which
\* it shares with the calls it makes for the subcommands
RECURSIVE get_values(_, _, _), PutSubcommands(_, _, _, _)

\* the loop over the subcommands, s.j and s.is_initialised as it leaves them
PutSubcommand(s, name, called) ==
    [j |-> IF called.is_initialised THEN Assign(s.j, name, called.j) ELSE s.j,
     is_initialised |-> called.is_initialised]

PutSubcommands(s, subcommands, dflt, descr) ==
    IF subcommands = <<>> THEN s
    ELSE PutSubcommands(PutSubcommand(s, Head(subcommands).name,
                                      get_values(Head(subcommands), dflt, descr)),
                        Tail(subcommands), dflt, descr)

\* the end of get_values: is_initialised, and the description of the app
EndValues(s, description, descr) ==
    [j |-> IF descr
           THEN Commented(s.j, get_description_for_TOML(description))
           ELSE s.j,
     is_initialised |-> s.is_initialised \/ s.j.type # "empty"]

get_values(application, dflt, descr) ==
    EndValues(PutSubcommands([j |-> PutOptions(toml_empty, application.options,
                                               dflt, descr),
                              is_initialised |-> FALSE],
                             application.subcommands, dflt, descr),
              application.description, descr)

\* config_stream << config_toml succeeds on a value that is initialized
Serialises(config_toml) == config_toml.type # "empty"

NothingToSave ==
    ParseError(<<Literal("No configuration present to save to TOML file.\nTry either running with default_also==TRUE\nor with some command line arguments.\nTOML configuration file will be empty.")>>,
               "ConversionError")

\* what to_config hands back: the text toml11 writes for config_toml, held
\* here as the value it is the text of, or the error
TomlWritten(config_toml) ==
    IF Serialises(config_toml) THEN Returns(config_toml) ELSE NothingToSave

\* the options the model writes: named by a long name, a short name or not
\* at all, taking a value or not, with up to MaxTomlResults results
TomlOptions ==
    { TomlOption(n.l, n.s, c, t, r, d, <<"o", "p", "t">>) :
        n \in { [l |-> << <<"o">> >>, s |-> << <<"s">> >>],
                [l |-> <<>>, s |-> << <<"s">> >>],
                [l |-> <<>>, s |-> <<>>] },
        c \in BOOLEAN,
        t \in {0, 1},
        r \in UNION {[1..k -> { <<"1">> }] : k \in 0..MaxTomlResults},
        d \in { <<>>, <<"7">>, <<"[", "1", ",", "2", "]">> } }

\* a second option of the root, and the option of a subcommand
SecondOptions ==
    { <<>>,
      <<TomlOption(<< <<"p">> >>, <<>>, TRUE, 1, << <<"a">>, <<"b">> >>, <<>>, <<>>)>> }

TomlSubcommands ==
    { <<>>,
      <<App(<<"u">>, TRUE, TRUE,
            <<TomlOption(<< <<"q">> >>, <<>>, TRUE, 0, <<>>, <<>>, <<>>)>>, <<>>)>>,
      <<App(<<"u">>, TRUE, TRUE,
            <<TomlOption(<< <<"q">> >>, <<>>, TRUE, 1, <<>>, <<>>, <<>>)>>, <<>>)>> }

InitTomlWrite ==
    /\ mode = "toml_to_config"
    /\ pc = "call"
    /\ app \in { App(<<"r", "o", "o", "t">>, TRUE, TRUE, <<o>> \o second, subs) :
                   o \in TomlOptions, second \in SecondOptions,
                   subs \in TomlSubcommands }
    /\ default_also \in BOOLEAN
    /\ write_description \in BOOLEAN
    /\ text = <<>> /\ reread = <<>>
    /\ config_file = <<>> /\ frames = <<>> /\ returned = <<>>
    /\ knobs = Knobs(<<>>, NoConfigIndex, DefaultMaximumLayers)
    /\ input = <<>> /\ consumed = 0 /\ fate = <<>>
    /\ currentSection = default /\ previousSection = default
    /\ output = <<>> /\ inSection = FALSE /\ currentSectionIndex = 0
    /\ arg = <<>> /\ result = <<>>
    /\ NoFlag /\ NoSplit

TomlWrite ==
    /\ mode = "toml_to_config" /\ pc = "call"
    /\ \E called \in {get_values(app, default_also, write_description)} :
          /\ config_file' = called.j
          /\ returned' = TomlWritten(called.j)
    /\ pc' = "done"
    /\ UNCHANGED <<mode, knobs, readerVars, quoteVars, writerVars, flagVars,
                   splitVars, frames>>

NextTomlWrite == TomlWrite

SpecTomlWrite == InitTomlWrite /\ [][NextTomlWrite]_vars

\* the value a table holds under a key
ValueUnder(j, key) ==
    LET entries == j.table
    IN  entries[CHOOSE i \in DOMAIN entries : entries[i].key = key].value

HasKey(j, key) ==
    j.type = "table" /\ \E i \in DOMAIN j.table : j.table[i].key = key

\* a value without its comments
Bare(value) == [f \in DOMAIN value \ {"comments"} |-> value[f]]

\* C11: in the value the TOML to_config writes, every configurable named
\* option of the root with exactly one result stands under its name as the
\* scalar of that result, every such value-taking option with more than one
\* result as the array of its results, and every such flag given N > 1
\* times as the integer N.
C11_ScalarArrayCount ==
    (mode = "toml_to_config" /\ pc = "done") =>
      \A i \in DOMAIN app.options :
         LET opt == app.options[i]
         IN  (Processed(opt) /\ count(opt) >= 1) =>
               /\ HasKey(config_file, KeyOf(opt))
               /\ Bare(ValueUnder(config_file, KeyOf(opt))) =
                    (IF count(opt) = 1 THEN toml_string(opt.results[1])
                     ELSE IF opt.type_size = 0 THEN toml_integer(count(opt))
                     ELSE StringArray(opt.results))


=============================================================================
